---- MODULE Spec2Model ----
(***************************************************************************)
(* Cue/sequence execution engine of powerswitch.py: the debounced,         *)
(* generation-tagged dispatch of cue sends (CueTableApp), the blocking     *)
(* send of one cue (_post_cue_sync), the execution of a <Cues> document    *)
(* (execute_sequence_from_file, execute_sequence) and the sequence files   *)
(* written by the sequence editor (_write_sequence_xml).                   *)
(*                                                                         *)
(* One interactive thread runs the Tk handlers; every handler is one       *)
(* action.  A worker thread is a record with a program position; a worker  *)
(* step runs from one blocking point (thread start, HTTP response, end of  *)
(* a sleep) to the next one (HTTP request sent, sleep started, result      *)
(* posted).                                                                *)
(***************************************************************************)
EXTENDS Integers, Sequences, FiniteSets, TLC

\* ------------------------------------------------------------------ bounds
NumRows == 2          \* rows (tree iids) of the cue table
MaxSends == 2         \* debounce fires that dispatch a worker
MaxRuns == 1          \* batch runs (Run menu)
MaxTimers == 2        \* Tk timer handles that can be outstanding at once
MaxExecSends == 1     \* dispatches in the executor specification
MaxRunSends == 1      \* dispatches in the batch specification
MaxBurst == 3         \* selections counted per debounce timer
NumBatchRows == 3     \* rows of the cue table in the batch specification
NumApiCues == 3       \* cues of a root handed to execute_sequence directly
MaxOpenRows == 1      \* rows of the cue file opened with File > Open

Iids == 1..NumRows
TimerIds == 1..MaxTimers
Gens == 1..MaxSends
BatchIids == 1..NumBatchRows

\* ------------------------------------------------------- program constants
OUTLET_BASE == 0
NoTimer == 0          \* _pending_send_id = None
NoAttr == "<None>"    \* Element.get(...) of an absent attribute
NoFile == [root |-> "<absent>", elems |-> <<>>]

\* ----------------------------------------------------------------- strings
\* int(text) on the strings that occur; every other string raises ValueError
IntStrings == {"0", "1", "2", "3", "4", "500"}

IsIntStr(s) == s \in IntStrings

IntOfStr(s) ==
    CASE s = "0" -> 0
      [] s = "1" -> 1
      [] s = "2" -> 2
      [] s = "3" -> 3
      [] s = "4" -> 4
      [] s = "500" -> 500
      [] OTHER -> 0

\* str(n) on the integers that occur
StrOfInt(n) ==
    CASE n = 0 -> "0"
      [] n = 1 -> "1"
      [] n = 2 -> "2"
      [] n = 3 -> "3"
      [] n = 4 -> "4"
      [] n = 500 -> "500"
      [] OTHER -> "?"

\* the value of an Order or Delay field of a cue dict: an int or a str
IntVal(n) == [isint |-> TRUE, n |-> n, text |-> ""]
StrVal(t) == [isint |-> FALSE, n |-> 0, text |-> t]

\* str(v) of an Order or Delay field
StrOfField(v) == IF v.isint THEN StrOfInt(v.n) ELSE v.text

BoolText(b) == IF b THEN "true" ELSE "false"

\* ------------------------------------------------------------------- codec
\* bool(cue.get(f"Switch{i}", False)); cue.sw holds the switches whose value
\* in the dict is a bool, a switch that is not a key or is None is not in it
SwitchState(cue, i) == i \in DOMAIN cue.sw /\ cue.sw[i]

\* mutant: the channel is the switch number
build_pairs_one_based(cue) ==
    [i \in 1..8 |-> <<OUTLET_BASE + i, SwitchState(cue, i)>>]

\* _build_pairs_from_cue: [channel, state] for Switch1..Switch8
build_pairs_from_cue(cue) ==
    [i \in 1..8 |-> <<OUTLET_BASE + (i - 1), SwitchState(cue, i)>>]

\* --------------------------------------------------------------- documents
\* An XML document is its root tag and the root's child elements; an element
\* is [tag, attr, children], attr a function from the attribute names that
\* are present to their text, children a sequence of [tag, text].
Get(el, k) == IF k \in DOMAIN el.attr THEN el.attr[k] ELSE NoAttr

\* text.strip().lower() on the texts that occur
StripLower(t) ==
    CASE t = "True" -> "true"
      [] t = "FALSE" -> "false"
      [] t = " true " -> "true"
      [] OTHER -> t

\* tag.startswith("Switch") and tag[len("Switch"):].isdigit(): the number, or 0
SwitchNumber(tag) ==
    CASE tag = "Switch1" -> 1
      [] tag = "Switch2" -> 2
      [] tag = "Switch3" -> 3
      [] tag = "Switch4" -> 4
      [] tag = "Switch5" -> 5
      [] tag = "Switch6" -> 6
      [] tag = "Switch7" -> 7
      [] tag = "Switch8" -> 8
      [] OTHER -> 0

\* mutant: the delay attribute is not written
write_sequence_xml_no_delay(steps) ==
    [root |-> "Sequence",
     elems |-> [i \in 1..Len(steps) |->
        [tag |-> "Step",
         attr |-> [switch |-> StrOfInt(steps[i].switch),
                   position |-> BoolText(steps[i].position)],
         children |-> <<>>]]]

\* _write_sequence_xml: <Sequence> with one <Step switch position delay/> per step
write_sequence_xml(steps) ==
    [root |-> "Sequence",
     elems |-> [i \in 1..Len(steps) |->
        [tag |-> "Step",
         attr |-> [switch |-> StrOfInt(steps[i].switch),
                   position |-> BoolText(steps[i].position),
                   delay |-> StrOfInt(steps[i].delay)],
         children |-> <<>>]]]

\* what a reader finds in a file whose write was begun and not finished: the
\* file is opened for writing, which empties it, and filled piece by piece
Truncated == [root |-> "<truncated>", elems |-> <<>>]

\* step_el.text: the text inside the element, None when there is none
Text(el) == IF "text" \in DOMAIN el THEN el.text ELSE NoAttr

\* a or b on attribute texts: None and "" are false
PyOr(a, b) == IF a \in {NoAttr, ""} THEN b ELSE a

\* int(raw) if raw is not None else 0, and 0 when int() raises
IntOrZero(raw) == IF raw # NoAttr /\ IsIntStr(raw) THEN IntOfStr(raw) ELSE 0

\* str(text).strip().lower() on the position texts that occur
PositionLower(t) ==
    CASE t = "TRUE" -> "true"
      [] t = "Yes" -> "yes"
      [] t = " on " -> "on"
      [] t = "T" -> "t"
      [] t = NoAttr -> "none"
      [] OTHER -> StripLower(t)

\* the spellings of a position that load as True
TruePositions == {"1", "true", "t", "yes", "y", "on"}

\* mutant: every position that is not spelled false or 0 loads as True
StepOfStrict(el) ==
    [switch |-> IntOrZero(PyOr(Get(el, "switch"), PyOr(Get(el, "Switch"), Get(el, "channel")))),
     position |-> PositionLower(PyOr(Get(el, "position"),
                      PyOr(Get(el, "Position"), Get(el, "state")))) \notin {"false", "0"},
     delay |-> IntOrZero(PyOr(Get(el, "delay"), PyOr(Get(el, "Delay"), Text(el))))]

\* _read_sequence_xml, lines 777-789: the step read from one <Step> element
StepOf(el) ==
    [switch |-> IntOrZero(PyOr(Get(el, "switch"), PyOr(Get(el, "Switch"), Get(el, "channel")))),
     position |-> PositionLower(PyOr(Get(el, "position"),
                      PyOr(Get(el, "Position"), Get(el, "state")))) \in TruePositions,
     delay |-> IntOrZero(PyOr(Get(el, "delay"), PyOr(Get(el, "Delay"), Text(el))))]

\* _read_sequence_xml: the steps of the document, or the exception of ET.parse
read_sequence_xml(doc) ==
    IF doc = NoFile THEN [err |-> "FileNotFoundError", steps |-> <<>>]
    ELSE IF doc = Truncated THEN [err |-> "ParseError", steps |-> <<>>]
    ELSE LET found == SelectSeq(doc.elems, LAMBDA e : e.tag = "Step")
         IN [err |-> "", steps |-> [i \in 1..Len(found) |-> StepOf(found[i])]]

\* _menu_run: the <Cue> element built from one row of the grid
RowElement(r) ==
    [tag |-> "Cue",
     attr |-> [name |-> r.Cue, order |-> StrOfField(r.Order),
               sequence |-> r.Sequence, delay |-> StrOfField(r.Delay)],
     children |-> [i \in 1..8 |->
        [tag |-> CASE i = 1 -> "Switch1" [] i = 2 -> "Switch2" [] i = 3 -> "Switch3"
                   [] i = 4 -> "Switch4" [] i = 5 -> "Switch5" [] i = 6 -> "Switch6"
                   [] i = 7 -> "Switch7" [] OTHER -> "Switch8",
         text |-> BoolText(SwitchState(r, i))]]]

\* ------------------------------------------- executing a <Cues> document
\* root.findall("Cue")
FindCues(elems) == SelectSeq(elems, LAMBDA e : e.tag = "Cue")

\* mutant: an order that is not an integer is defaulted, not rejected
OrderErrorNone(ce) == ""

\* the ValueError of the collecting loop, "" when every cue has an integer order
OrderError(ce) ==
    LET bad == {i \in 1..Len(ce) : ~IsIntStr(Get(ce[i], "order"))}
    IN IF bad = {} THEN ""
       ELSE LET i == CHOOSE j \in bad : \A k \in bad : j <= k
            IN IF Get(ce[i], "order") = NoAttr
                  THEN "ValueError: Cue missing required 'order' attribute"
                  ELSE "ValueError: Invalid Cue order"

\* the order text the ValueError of the collecting loop quotes
OrderErrorDetail(ce) ==
    LET bad == {i \in 1..Len(ce) : ~IsIntStr(Get(ce[i], "order"))}
        i == CHOOSE j \in bad : \A k \in bad : j <= k
    IN IF bad = {} \/ Get(ce[i], "order") = NoAttr THEN "" ELSE Get(ce[i], "order")

\* mutant: every cue has the same sort key
OrderOfNone(el) == 0

\* the sort key of a collected cue: int(order_raw)
OrderOf(el) == IntOfStr(Get(el, "order"))

RECURSIVE InsertByOrder(_, _)
\* el placed after every element of the sorted list whose order is <= its own
InsertByOrder(sorted, el) ==
    IF sorted = <<>> THEN <<el>>
    ELSE IF OrderOf(Head(sorted)) <= OrderOf(el)
         THEN <<Head(sorted)>> \o InsertByOrder(Tail(sorted), el)
         ELSE <<el>> \o sorted

RECURSIVE SortByOrder(_)
\* cues.sort(key=lambda t: t[0]): stable, ascending
SortByOrder(ce) ==
    IF ce = <<>> THEN <<>>
    ELSE InsertByOrder(SortByOrder(SubSeq(ce, 1, Len(ce) - 1)), ce[Len(ce)])

\* the children of a cue element that are <SwitchN>, in document order
SwitchChildren(el) == SelectSeq(el.children, LAMBDA c : SwitchNumber(c.tag) > 0)

\* mutant: a cue without switch children is posted with no pairs
CueStepsEmptyPosted(el) ==
    LET sc == SwitchChildren(el)
        bad == {i \in 1..Len(sc) : StripLower(sc[i].text) \notin {"true", "false"}}
    IN IF bad # {} THEN [err |-> "ValueError: Invalid value for <SwitchN>", steps |-> <<>>]
       ELSE [err |-> "",
             steps |-> [i \in 1..Len(sc) |->
                 <<SwitchNumber(sc[i].tag) - 1, StripLower(sc[i].text) = "true">>]]

\* the inner loop over the children: the ValueError it raises ("" if none)
\* and the [channel, state] pairs it builds
CueSteps(el) ==
    LET sc == SwitchChildren(el)
        bad == {i \in 1..Len(sc) : StripLower(sc[i].text) \notin {"true", "false"}}
    IN IF bad # {} THEN [err |-> "ValueError: Invalid value for <SwitchN>", steps |-> <<>>]
       ELSE IF sc = <<>>
            THEN [err |-> "ValueError: Cue produced no Switch settings", steps |-> <<>>]
            ELSE [err |-> "",
                  steps |-> [i \in 1..Len(sc) |->
                      <<SwitchNumber(sc[i].tag) - 1, StripLower(sc[i].text) = "true">>]]

\* mutant: the delay of a cue is ignored
CueDelayNone(el) == [err |-> "", ms |-> 0]

\* the optional per-cue delay: the ValueError it raises ("" if none) and the ms
CueDelay(el) ==
    LET raw == Get(el, "delay")
    IN IF raw = NoAttr \/ raw = "" THEN [err |-> "", ms |-> 0]
       ELSE IF IsIntStr(raw) THEN [err |-> "", ms |-> IntOfStr(raw)]
            ELSE [err |-> "ValueError: Invalid Cue delay", ms |-> 0]

\* what the executing loop does next with the cues still to run: it ends,
\* raises, or posts the pairs of the first of them
ExecNext(todo) ==
    IF todo = <<>> THEN [kind |-> "end", msg |-> "", pairs |-> <<>>]
    ELSE LET cs == CueSteps(Head(todo))
         IN IF cs.err # "" THEN [kind |-> "raise", msg |-> cs.err, pairs |-> <<>>]
            ELSE [kind |-> "post", msg |-> "", pairs |-> cs.steps]

\* ------------------------------------------------------------------- state
VARIABLES
    send_seq,          \* _send_seq
    pending_send_id,   \* _pending_send_id: a timer id or NoTimer
    is_closing,        \* _is_closing
    winfo_exists,      \* the root window exists (the main loop is running)
    dli_status,        \* the status display; src and gen: who set it (history)
    busy,              \* the wait cursor is shown (_set_busy)
    row_data_by_iid,   \* the iids that are rows of the cue table
    cues,              \* the cue dict object of each iid (Order, Delay: int or str)
    timers,            \* outstanding debounce timers: [id, iid]
    queue,             \* callbacks posted with after(0, ...), oldest first
    workers,           \* the worker thread of each dispatched generation
    run,               \* the worker thread of the batch run
    runs,              \* batch runs started
    files,             \* the documents in the sequences directory, by name
    selection,         \* tree.selection(): the selected row, 0 for none
    last,              \* history: the coordinator handler that ran last
    store,             \* the sequence editor: its write in progress, its last load
    notified           \* what cue_change_callback was last called with, and when

vars == <<send_seq, pending_send_id, is_closing, winfo_exists, dli_status, busy,
          row_data_by_iid, cues, timers, queue, workers, run, runs, files, selection, last,
          store, notified>>

SeqNames == {"warmup", "ghost"}

\* seq_filename without its extension: the key of the file
seq_filename(sequence) ==
    CASE sequence = "warmup.xml" -> "warmup"
      [] sequence = "WARMUP.XML" -> "WARMUP"
      [] OTHER -> sequence

NoWorker == [pc |-> "none"]

\* history of a worker: the POSTs it sent (of a step of a document, or of the
\* cue's own payload), their outcomes and its sleeps
Call(kind, pairs) == [ev |-> "call", kind |-> kind, pairs |-> pairs, outcome |-> "", ms |-> 0]
Resp(kind, outcome) == [ev |-> "resp", kind |-> kind, pairs |-> <<>>, outcome |-> outcome, ms |-> 0]
Sleep(ms) == [ev |-> "sleep", kind |-> "", pairs |-> <<>>, outcome |-> "", ms |-> ms]

\* ------------------------------------------------------ the send worker
\* the worker returns from _post_cue_sync or catches its exception
Finish(w, ok, msg) == [w EXCEPT !.pc = "exit", !.ok = ok, !.msg = msg, !.flight = <<>>]

\* _post_cue_sync, lines 521-526: the POST of the cue's own payload is sent
PostOwn(w) ==
    [w EXCEPT !.pc = "own_call", !.flight = w.payload, !.todo = <<>>,
              !.trace = Append(w.trace, Call("own", w.payload))]

\* execute_sequence_from_file, the loop over the sorted cues, from its top
\* with the cues `todo` still to run, up to the next POST, raise or return
FileLoop(w, todo) ==
    LET n == ExecNext(todo)
    IN CASE n.kind = "end" -> PostOwn(w)
         [] n.kind = "raise" -> Finish(w, FALSE, n.msg)
         [] OTHER -> [w EXCEPT !.pc = "seq_call", !.flight = n.pairs, !.todo = todo,
                               !.trace = Append(w.trace, Call("step", n.pairs))]

\* mutant: a sequence file that does not exist is skipped, the cue's own
\* payload is sent
MissingFileSendsOwn(w) == PostOwn(w)

\* _post_cue_sync, line 518: seq_path does not exist, FileNotFoundError
MissingFile(w) == Finish(w, FALSE, "FileNotFoundError")

\* _post_cue_sync from its first line to the first POST, raise or return
PostCueStart(w, cue, fs) ==
    LET doc == IF seq_filename(cue.Sequence) \in DOMAIN fs
               THEN fs[seq_filename(cue.Sequence)] ELSE NoFile
        w1 == [w EXCEPT !.read = cue,
                        !.payload = build_pairs_from_cue(cue),
                        !.sequence = cue.Sequence,
                        !.doc = IF cue.Sequence = "" THEN NoFile ELSE doc]
        ce == FindCues(doc.elems)
    IN IF cue.Sequence = "" THEN PostOwn(w1)
       ELSE IF doc = NoFile
            THEN MissingFile(w1)
       ELSE IF doc = Truncated
            THEN Finish(w1, FALSE, "ParseError")
       ELSE IF doc.root # "Cues"
            THEN Finish(w1, FALSE, "ValueError: Expected root <Cues>")
       ELSE IF OrderError(ce) # ""
            THEN Finish(w1, FALSE, OrderError(ce))
       ELSE FileLoop(w1, SortByOrder(ce))

\* mutant: a POST of the own payload that failed in transport is sent again
OwnResponseRetries(w, outcome) ==
    IF outcome = "timeout"
    THEN IF Len(w.trace) < 4 THEN PostOwn(w) ELSE Finish(w, FALSE, "TransportError")
    ELSE Finish(w, TRUE, outcome)

\* _post_cue_sync, lines 526-527, and the worker's try/except, lines 546-550:
\* httpx.post raises (transport failure) or its response is returned as text
OwnResponse(w, outcome) ==
    IF outcome = "timeout" THEN Finish(w, FALSE, "TransportError")
    ELSE Finish(w, TRUE, outcome)

\* mutant: the loop over the steps goes on after a failed POST
PostCueResponseNoRaise(w0, outcome) ==
    LET w == [w0 EXCEPT !.flight = <<>>,
                        !.trace = Append(w0.trace,
                            Resp(IF w0.pc = "own_call" THEN "own" ELSE "step", outcome))]
    IN IF w.pc = "own_call"
       THEN OwnResponse(w, outcome)
       ELSE FileLoop(w, Tail(w.todo))

\* the worker resumes with the outcome of the POST it was blocked in:
\* an HTTP status, or "timeout" for a transport failure
PostCueResponse(w0, outcome) ==
    LET w == [w0 EXCEPT !.flight = <<>>,
                        !.trace = Append(w0.trace,
                            Resp(IF w0.pc = "own_call" THEN "own" ELSE "step", outcome))]
    IN IF w.pc = "own_call"
       THEN OwnResponse(w, outcome)
       ELSE \* seq_call: requests.post, raise_for_status, delay
            IF outcome = "timeout" THEN Finish(w, FALSE, "TransportError")
            ELSE IF outcome # "200" THEN Finish(w, FALSE, "HTTPError")
            ELSE LET d == CueDelay(Head(w.todo))
                 IN IF d.err # "" THEN Finish(w, FALSE, d.err)
                    ELSE IF d.ms > 0
                         THEN [w EXCEPT !.pc = "seq_sleep",
                                        !.trace = Append(w.trace, Sleep(d.ms))]
                         ELSE FileLoop(w, Tail(w.todo))

\* mutant: _safe_after without its guard
SafeAfterAlways == TRUE

\* _safe_after, line 464: the app is still alive, the callback is scheduled
SafeAfterAllowed == ~(is_closing \/ ~winfo_exists)

\* _safe_after(0, func) called with the callback record cb: the queue after it
safe_after(q, cb) == IF SafeAfterAllowed THEN Append(q, cb) ELSE q

\* worker(), line 551: the result of a finished worker is marshalled back
PostResult(w) ==
    IF w.pc = "exit"
    THEN safe_after(queue, [fn |-> "finish_send", seq |-> w.seq, ok |-> w.ok,
                            msg |-> w.msg, cue |-> w.cue])
    ELSE queue

\* ------------------------------------------------------ the batch worker
\* a batch worker is a record like a send worker; its field called is
\* history: the cue elements whose device call was issued, oldest first
\* execute_sequence, the loop over the sorted cues, from its top with the
\* cues `todo` still to run, up to the next POST, raise or return
RunLoop(r, todo) ==
    LET n == ExecNext(todo)
    IN CASE n.kind = "end" ->
              [r EXCEPT !.pc = "exit", !.ok = TRUE, !.msg = "sequence run complete",
                        !.flight = <<>>, !.todo = <<>>]
         [] n.kind = "raise" ->
              [r EXCEPT !.pc = "exit", !.ok = FALSE, !.msg = n.msg, !.flight = <<>>,
                        !.todo = todo]
         [] OTHER -> [r EXCEPT !.pc = "call", !.flight = n.pairs, !.todo = todo,
                               !.called = Append(r.called, Head(todo)),
                               !.trace = Append(r.trace, Call("step", n.pairs))]

\* execute_sequence from its first line to the first POST, raise or return
ExecuteSequenceStart(r) ==
    LET ce == FindCues(r.root)
    IN IF OrderError(ce) # ""
       THEN [r EXCEPT !.pc = "exit", !.ok = FALSE, !.msg = OrderError(ce),
                      !.detail = OrderErrorDetail(ce)]
       ELSE RunLoop(r, SortByOrder(ce))

\* mutant: a failed POST does not raise
RaiseForStatusNever(outcome) == ""

\* requests.post and resp.raise_for_status(), lines 1200-1207: the exception
\* raised for the outcome of the POST, "" if none
RaiseForStatus(outcome) ==
    CASE outcome = "timeout" -> "TransportError"
      [] outcome # "200" -> "HTTPError"
      [] OTHER -> ""

\* execute_sequence resumes with the outcome of the POST it was blocked in
ExecuteSequenceResponse(r0, outcome) ==
    LET r == [r0 EXCEPT !.flight = <<>>,
                        !.trace = Append(r0.trace, Resp("step", outcome))]
    IN IF RaiseForStatus(outcome) # ""
       THEN \* the text of the exception quotes the status or the host, and the url
            [r EXCEPT !.pc = "exit", !.ok = FALSE, !.msg = RaiseForStatus(outcome),
                      !.detail = outcome]
       ELSE LET d == CueDelay(Head(r.todo))
            IN IF d.err # ""
               THEN [r EXCEPT !.pc = "exit", !.ok = FALSE, !.msg = d.err,
                              !.detail = Get(Head(r.todo), "delay")]
               ELSE IF d.ms > 0
                    THEN [r EXCEPT !.pc = "sleep",
                                   !.trace = Append(r.trace, Sleep(d.ms))]
                    ELSE RunLoop(r, Tail(r.todo))

\* _menu_run.worker, lines 756-764: the status and the busy reset are posted
PostRunResult(r) ==
    IF r.pc = "exit"
    THEN safe_after(safe_after(queue, [fn |-> "run_status", seq |-> 0, ok |-> r.ok,
                                       msg |-> r.msg, cue |-> 0]),
                    [fn |-> "set_busy_false", seq |-> 0, ok |-> TRUE, msg |-> "", cue |-> 0])
    ELSE queue

\* ------------------------------------------------- the interactive thread
\* mutant: the generation counter is incremented by two
NextSeqByTwo(n) == n + 2

\* mutant: the generation counter is not incremented
NextSeqStuck(n) == n

\* _begin_send_selected, line 540: _send_seq += 1
NextSeq(n) == n + 1

\* mutant: _finish_send returns before it applies anything
FinishSendAppliesNever(seq) == FALSE

\* mutant: _finish_send without the generation check
FinishSendAppliesAnySeq(seq) == ~(is_closing \/ ~winfo_exists)

\* mutant: _finish_send that lets results of older generations through
FinishSendAppliesOlder(seq) == ~(is_closing \/ ~winfo_exists) /\ seq <= send_seq

\* _finish_send, lines 557-560: the result is applied
FinishSendApplies(seq) == ~(is_closing \/ ~winfo_exists) /\ seq = send_seq

\* the smallest timer id that no outstanding timer of ts has
FreshTimer(ts) == CHOOSE i \in TimerIds \ {t.id : t \in ts} :
                     \A j \in TimerIds \ {t.id : t \in ts} : i <= j

\* mutant: the handle that is cancelled is not the pending one
AfterCancelOtherHandle(ts, id) == {t \in ts : t.id # id + 1}

\* mutant: the pending timer is not cancelled
AfterCancelNothing(ts, id) == ts

\* after_cancel(_pending_send_id)
AfterCancel(ts, id) == {t \in ts : t.id # id}

\* history: the selections a timer stands for, the cancelled ones included
Coalesced(ts, id) ==
    LET old == {t \in ts : t.id = id}
    IN IF old = {} THEN 1
       ELSE LET n == (CHOOSE t \in old : TRUE).n IN IF n < MaxBurst THEN n + 1 ELSE n

\* mutant: the callback is called after the debounced send is scheduled
EmitSeesScheduled(before, after) == after

\* _on_tree_select calls _emit_for_iid, then _debounced_send_for_iid: the
\* _pending_send_id that stands while cue_change_callback runs
EmitSees(before, after) == before

\* <<TreeviewSelect>> for the row iid: _on_tree_select
OnTreeSelect(iid) ==
    /\ winfo_exists
    /\ store.pc = "idle"
    /\ iid \in row_data_by_iid
    /\ selection' = iid
    /\ LET kept == IF pending_send_id # NoTimer
                   THEN AfterCancel(timers, pending_send_id) ELSE timers
       IN IF ~SafeAfterAllowed
          THEN /\ timers' = kept
               /\ pending_send_id' = NoTimer
          ELSE /\ TimerIds \ {t.id : t \in kept} # {}
               /\ timers' = kept \cup {[id |-> FreshTimer(kept), iid |-> iid,
                                        n |-> Coalesced(timers, pending_send_id)]}
               /\ pending_send_id' = FreshTimer(kept)
    /\ notified' = [iid |-> iid, pending |-> EmitSees(pending_send_id, pending_send_id')]
    /\ last' = [op |-> "select", arg |-> iid, n |-> 0]
    /\ UNCHANGED <<send_seq, is_closing, winfo_exists, dli_status, busy,
                   row_data_by_iid, cues, queue, workers, run, runs, files, store>>

\* mutant: the row of a timer is taken to exist whatever the table holds
RowExistsAlways(iid) == TRUE

\* _begin_send_selected, lines 534-536: row_data_by_iid.get(iid) is a cue
RowExists(iid) == iid \in row_data_by_iid

\* the debounce timer t fires: _begin_send_selected(t.iid)
BeginSendSelected(t, cap) ==
    /\ winfo_exists
    /\ store.pc = "idle"
    /\ t \in timers
    /\ timers' = timers \ {t}
    /\ IF is_closing \/ ~winfo_exists \/ ~RowExists(t.iid)
       THEN UNCHANGED <<busy, pending_send_id, send_seq, workers>>
       ELSE /\ send_seq < cap
            /\ busy' = TRUE
            /\ pending_send_id' = NoTimer
            /\ send_seq' = NextSeq(send_seq)
            /\ workers' = [workers EXCEPT ![send_seq + 1] =
                  [pc |-> "start", seq |-> NextSeq(send_seq), cue |-> t.iid,
                   snap |-> cues[t.iid], read |-> cues[t.iid], doc |-> NoFile,
                   payload |-> <<>>, sequence |-> "", todo |-> <<>>,
                   flight |-> <<>>, trace |-> <<>>, ok |-> FALSE, msg |-> ""]]
    /\ last' = [op |-> "fire", arg |-> t.iid, n |-> t.n]
    /\ UNCHANGED <<is_closing, winfo_exists, dli_status, row_data_by_iid, cues,
                   queue, run, runs, files, selection, store, notified>>

\* the main loop runs the oldest posted callback
RunCallback ==
    /\ winfo_exists
    /\ store.pc = "idle"
    /\ queue # <<>>
    /\ queue' = Tail(queue)
    /\ LET cb == Head(queue)
       IN CASE cb.fn = "finish_send" ->
                 IF FinishSendApplies(cb.seq)
                 THEN /\ dli_status' = [ok |-> cb.ok, msg |-> cb.msg,
                                        name |-> cues[cb.cue].Cue,
                                        src |-> "send", gen |-> cb.seq]
                      /\ busy' = FALSE
                 ELSE UNCHANGED <<dli_status, busy>>
            [] cb.fn = "run_status" ->
                 /\ dli_status' = [ok |-> cb.ok, msg |-> cb.msg, name |-> "",
                                   src |-> "run", gen |-> 0]
                 /\ UNCHANGED busy
            [] OTHER ->
                 /\ busy' = FALSE
                 /\ UNCHANGED dli_status
    /\ last' = [op |-> Head(queue).fn, arg |-> Head(queue).seq, n |-> 0]
    /\ UNCHANGED <<send_seq, pending_send_id, is_closing, winfo_exists,
                   row_data_by_iid, cues, timers, workers, run, runs, files, selection, store, notified>>

\* a click on the switch cell col of row iid: _toggle_if_switch_cell
ToggleIfSwitchCell(iid, col) ==
    /\ winfo_exists
    /\ store.pc = "idle"
    /\ iid \in row_data_by_iid
    /\ cues' = [cues EXCEPT ![iid].sw =
                    [i \in DOMAIN @ \cup {col} |->
                        IF i = col THEN ~SwitchState(cues[iid], col) ELSE @[i]]]
    /\ UNCHANGED <<send_seq, pending_send_id, is_closing, winfo_exists, dli_status,
                   busy, row_data_by_iid, timers, queue, workers, run, runs, files,
                   selection, last, store, notified>>

\* the inline editor of the cell col of row iid commits text: commit()
InlineEditCommit(iid, col, text) ==
    /\ winfo_exists
    /\ store.pc = "idle"
    /\ iid \in row_data_by_iid
    /\ LET num == IF text # "" /\ IsIntStr(text) THEN IntVal(IntOfStr(text))
                  ELSE StrVal(text)
       IN cues' = CASE col = "Order" -> [cues EXCEPT ![iid].Order = num]
                    [] col = "Delay" -> [cues EXCEPT ![iid].Delay = num]
                    [] col = "Sequence" -> [cues EXCEPT ![iid].Sequence = text]
                    [] OTHER -> [cues EXCEPT ![iid].Cue = text]
    /\ UNCHANGED <<send_seq, pending_send_id, is_closing, winfo_exists, dli_status,
                   busy, row_data_by_iid, timers, queue, workers, run, runs, files,
                   selection, last, store, notified>>

\* on_closing up to _save_config, whose warning dialog runs the main loop
OnClosing ==
    /\ winfo_exists
    /\ store.pc = "idle"
    /\ ~is_closing
    /\ is_closing' = TRUE
    /\ timers' = IF pending_send_id # NoTimer
                 THEN AfterCancel(timers, pending_send_id) ELSE timers
    /\ last' = [op |-> "closing", arg |-> 0, n |-> 0]
    /\ UNCHANGED <<send_seq, pending_send_id, winfo_exists, dli_status, busy,
                   row_data_by_iid, cues, queue, workers, run, runs, files, selection, store, notified>>

\* on_closing from _save_config's return on: destroy()
Destroy ==
    /\ winfo_exists
    /\ store.pc = "idle"
    /\ is_closing
    /\ winfo_exists' = FALSE
    /\ timers' = {}
    /\ queue' = <<>>
    /\ last' = [op |-> "destroy", arg |-> 0, n |-> 0]
    /\ UNCHANGED <<send_seq, pending_send_id, is_closing, dli_status, busy,
                   row_data_by_iid, cues, workers, run, runs, files, selection, store, notified>>

\* _gather_rows: the cue dicts in tree order
GatherRows ==
    LET RECURSIVE Rows(_)
        Rows(n) == IF n = 0 THEN <<>>
                   ELSE IF n \in row_data_by_iid THEN Append(Rows(n - 1), cues[n])
                        ELSE Rows(n - 1)
    IN Rows(Cardinality(DOMAIN cues))

\* the Run menu command: _menu_run builds <Cues> from the grid, starts a thread
MenuRun ==
    /\ winfo_exists
    /\ store.pc = "idle"
    /\ ~is_closing
    /\ runs < MaxRuns
    /\ GatherRows # <<>>
    /\ runs' = runs + 1
    /\ run' = [run EXCEPT ![runs + 1] =
          [pc |-> "start",
           root |-> [i \in 1..Len(GatherRows) |-> RowElement(GatherRows[i])],
           todo |-> <<>>, flight |-> <<>>, trace |-> <<>>, ok |-> FALSE, msg |-> "",
           detail |-> "", called |-> <<>>]]
    /\ UNCHANGED <<send_seq, pending_send_id, is_closing, winfo_exists, dli_status,
                   busy, row_data_by_iid, cues, timers, queue, workers, files,
                   selection, last, store, notified>>

\* the state of the sequence editor when no write is in progress and nothing
\* was loaded: doc is the document the last load read, loaded and err its result
IdleStore == [pc |-> "idle", name |-> "", steps |-> <<>>, doc |-> NoFile,
              loaded |-> <<>>, err |-> ""]

\* _write_sequence_xml up to where ElementTree.write has opened the file of
\* name for writing: the sequence editor saves steps (_menu_add_new_sequence,
\* and _menu_edit_sequence after its dialog)
WriteBegin(name, steps) ==
    /\ winfo_exists
    /\ store.pc = "idle"
    /\ ~is_closing
    /\ files' = [files EXCEPT ![name] = Truncated]
    /\ store' = [store EXCEPT !.pc = "writing", !.name = name, !.steps = steps]
    /\ UNCHANGED <<send_seq, pending_send_id, is_closing, winfo_exists, dli_status,
                   busy, row_data_by_iid, cues, timers, queue, workers, run, runs,
                   selection, last, notified>>

\* ElementTree.write has written the whole document and closed the file
WriteEnd ==
    /\ store.pc = "writing"
    /\ files' = [files EXCEPT ![store.name] = write_sequence_xml(store.steps)]
    /\ store' = [store EXCEPT !.pc = "idle"]
    /\ UNCHANGED <<send_seq, pending_send_id, is_closing, winfo_exists, dli_status,
                   busy, row_data_by_iid, cues, timers, queue, workers, run, runs,
                   selection, last, notified>>

\* the process ends inside ElementTree.write and the application is started
\* again: the coordinator is as constructed, the files are as they were left
Restart ==
    /\ store.pc = "writing"
    /\ send_seq' = 0
    /\ pending_send_id' = NoTimer
    /\ dli_status' = [ok |-> TRUE, msg |-> "ready", name |-> "", src |-> "init", gen |-> 0]
    /\ busy' = FALSE
    /\ timers' = {}
    /\ queue' = <<>>
    /\ workers' = [g \in Gens |-> NoWorker]
    /\ selection' = 0
    /\ last' = [op |-> "init", arg |-> 0, n |-> 0]
    /\ store' = IdleStore
    /\ notified' = [iid |-> 0, pending |-> NoTimer]
    /\ UNCHANGED <<is_closing, winfo_exists, row_data_by_iid, cues, run, runs, files>>

\* _menu_edit_sequence up to its dialog: the file of name is picked and read
MenuEditSequence(name) ==
    /\ winfo_exists
    /\ store.pc = "idle"
    /\ files[name] # NoFile
    /\ LET r == read_sequence_xml(files[name])
       IN store' = [store EXCEPT !.name = name, !.doc = files[name],
                                 !.loaded = r.steps, !.err = r.err]
    /\ UNCHANGED <<send_seq, pending_send_id, is_closing, winfo_exists, dli_status,
                   busy, row_data_by_iid, cues, timers, queue, workers, run, runs,
                   files, selection, last, notified>>

\* _menu_add_new_sequence when nothing runs between the opening of the file
\* and its closing: WriteBegin and WriteEnd in one step
MenuAddNewSequence(name, steps) ==
    /\ winfo_exists
    /\ store.pc = "idle"
    /\ ~is_closing
    /\ files[name] # write_sequence_xml(steps)
    /\ files' = [files EXCEPT ![name] = write_sequence_xml(steps)]
    /\ UNCHANGED <<send_seq, pending_send_id, is_closing, winfo_exists, dli_status,
                   busy, row_data_by_iid, cues, timers, queue, workers, run, runs,
                   selection, last, store, notified>>

\* ------------------------------------------------------- worker threads
Outcomes == {"200", "500", "timeout"}

\* the send worker of generation g starts running: _post_cue_sync(cue)
WorkerStart(g) ==
    /\ workers[g].pc = "start"
    /\ LET w == PostCueStart(workers[g], cues[workers[g].cue], files)
       IN /\ workers' = [workers EXCEPT ![g] = w]
          /\ queue' = PostResult(w)
    /\ UNCHANGED <<send_seq, pending_send_id, is_closing, winfo_exists, dli_status,
                   busy, row_data_by_iid, cues, timers, run, runs, files, selection, last, store, notified>>

\* the device answers the POST of the send worker of generation g
WorkerResponse(g, outcome) ==
    /\ workers[g].pc \in {"seq_call", "own_call"}
    /\ LET w == PostCueResponse(workers[g], outcome)
       IN /\ workers' = [workers EXCEPT ![g] = w]
          /\ queue' = PostResult(w)
    /\ UNCHANGED <<send_seq, pending_send_id, is_closing, winfo_exists, dli_status,
                   busy, row_data_by_iid, cues, timers, run, runs, files, selection, last, store, notified>>

\* time.sleep of the send worker of generation g returns
WorkerWake(g) ==
    /\ workers[g].pc = "seq_sleep"
    /\ LET w == FileLoop(workers[g], Tail(workers[g].todo))
       IN /\ workers' = [workers EXCEPT ![g] = w]
          /\ queue' = PostResult(w)
    /\ UNCHANGED <<send_seq, pending_send_id, is_closing, winfo_exists, dli_status,
                   busy, row_data_by_iid, cues, timers, run, runs, files, selection, last, store, notified>>

\* the batch worker k starts running: _set_busy(True), execute_sequence(cues_el)
RunStart(k) ==
    /\ run[k].pc = "start"
    /\ IF winfo_exists
       THEN /\ busy' = TRUE
            /\ LET r == ExecuteSequenceStart(run[k])
               IN /\ run' = [run EXCEPT ![k] = r]
                  /\ queue' = PostRunResult(r)
       ELSE \* update_idletasks() raises outside the try: the thread ends
            /\ run' = [run EXCEPT ![k].pc = "dead"]
            /\ UNCHANGED <<busy, queue>>
    /\ UNCHANGED <<send_seq, pending_send_id, is_closing, winfo_exists, dli_status,
                   row_data_by_iid, cues, timers, workers, runs, files, selection, last, store, notified>>

\* the device answers the POST of the batch worker k
RunResponse(k, outcome) ==
    /\ run[k].pc = "call"
    /\ LET r == ExecuteSequenceResponse(run[k], outcome)
       IN /\ run' = [run EXCEPT ![k] = r]
          /\ queue' = PostRunResult(r)
    /\ UNCHANGED <<send_seq, pending_send_id, is_closing, winfo_exists, dli_status,
                   busy, row_data_by_iid, cues, timers, workers, runs, files, selection, last, store, notified>>

\* time.sleep of the batch worker k returns
RunWake(k) ==
    /\ run[k].pc = "sleep"
    /\ LET r == RunLoop(run[k], Tail(run[k].todo))
       IN /\ run' = [run EXCEPT ![k] = r]
          /\ queue' = PostRunResult(r)
    /\ UNCHANGED <<send_seq, pending_send_id, is_closing, winfo_exists, dli_status,
                   busy, row_data_by_iid, cues, timers, workers, runs, files, selection, last, store, notified>>

\* ------------------------------------------------------------ specification
Switches(on) == [i \in 1..8 |-> i \in on]

\* a <Cue> element of a hand-written <Cues> document
CueElement(order, delay, tag, text) ==
    [tag |-> "Cue", attr |-> [order |-> order, delay |-> delay],
     children |-> <<[tag |-> tag, text |-> text]>>]

\* sequences/warmup.xml as a <Cues> document: channel 2 on, 500 ms, channel 2 off
WarmupCues ==
    [root |-> "Cues",
     elems |-> <<CueElement("1", "500", "Switch3", "true"),
                 CueElement("2", "0", "Switch3", "false")>>]

\* the steps the sequence editor saves as warmup
WarmupSteps ==
    <<[switch |-> 2, position |-> TRUE, delay |-> 500],
      [switch |-> 2, position |-> FALSE, delay |-> 0]>>

\* the rows of the opened cue file: every second one names the sequence
InitCue(i) ==
    [Cue |-> IF i % 2 = 1 THEN "A" ELSE "B", Order |-> IntVal(i),
     Sequence |-> IF i % 2 = 1 THEN "" ELSE "warmup",
     Delay |-> IntVal(IF i % 2 = 1 THEN 500 ELSE 0),
     sw |-> Switches({})]

ToggleCols == {1}

\* the timers Tk can hold: handle, row, selections it stands for (history)
TimerRecords == [id : TimerIds, iid : Iids, n : 1..MaxBurst]

InitCoordinator ==
    /\ send_seq = 0
    /\ pending_send_id = NoTimer
    /\ is_closing = FALSE
    /\ winfo_exists = TRUE
    /\ dli_status = [ok |-> TRUE, msg |-> "ready", name |-> "", src |-> "init", gen |-> 0]
    /\ busy = FALSE
    /\ timers = {}
    /\ queue = <<>>
    /\ workers = [g \in Gens |-> NoWorker]
    /\ run = [k \in 1..MaxRuns |-> NoWorker]
    /\ runs = 0
    /\ selection = 0
    /\ last = [op |-> "init", arg |-> 0, n |-> 0]
    /\ store = IdleStore
    /\ notified = [iid |-> 0, pending |-> NoTimer]

Init ==
    /\ InitCoordinator
    /\ row_data_by_iid = Iids
    /\ cues = [i \in Iids |-> [InitCue(i) EXCEPT !.Sequence = ""]]
    /\ files = [n \in SeqNames |-> IF n = "warmup" THEN WarmupCues ELSE NoFile]

\* the coordinator: selections, debounce, send workers, results, shutdown
Next ==
    \/ \E iid \in Iids : OnTreeSelect(iid)
    \/ \E t \in TimerRecords : BeginSendSelected(t, MaxSends)
    \/ RunCallback
    \/ OnClosing
    \/ Destroy
    \/ \E g \in Gens : WorkerStart(g)
    \/ \E g \in Gens, o \in {"200", "timeout"} : WorkerResponse(g, o)

Spec == Init /\ [][Next]_vars

\* the coordinator under fair scheduling: a started thread gets to run, the
\* POST of a worker returns or times out (DLI_TIMEOUT), and the main loop
\* runs the callbacks posted to it
Fairness ==
    /\ WF_vars(RunCallback)
    /\ \A g \in Gens : WF_vars(WorkerStart(g))
    /\ \A g \in Gens : WF_vars(\E o \in {"200", "timeout"} : WorkerResponse(g, o))

SpecLive == Init /\ [][Next]_vars /\ Fairness

\* the coordinator together with the batch run of the Run menu
NextRun ==
    \/ \E iid \in Iids : OnTreeSelect(iid)
    \/ \E t \in TimerRecords : BeginSendSelected(t, MaxRunSends)
    \/ RunCallback
    \/ OnClosing
    \/ Destroy
    \/ MenuRun
    \/ \E g \in Gens : WorkerStart(g)
    \/ \E g \in Gens, o \in {"200", "timeout"} : WorkerResponse(g, o)
    \/ \E k \in 1..MaxRuns : RunStart(k)
    \/ \E k \in 1..MaxRuns, o \in Outcomes : RunResponse(k, o)
    \/ \E k \in 1..MaxRuns : RunWake(k)

SpecRun == Init /\ [][NextRun]_vars

\* a hand-written <Cues> document of three cues, one without a delay
ThreeCues ==
    [root |-> "Cues",
     elems |-> <<CueElement("1", "", "Switch1", "true"),
                 [tag |-> "Cue", attr |-> [order |-> "2"],
                  children |-> <<[tag |-> "Switch2", text |-> "True"]>>],
                 CueElement("3", "0", "Switch1", "false")>>]

\* what sequences/warmup.xml holds when the application starts
ExecDocs == {WarmupCues, ThreeCues, NoFile}

\* the step lists the sequence editor saves
StepLists == {WarmupSteps, <<[switch |-> 1, position |-> TRUE, delay |-> 0]>>}

InitExec ==
    /\ InitCoordinator
    /\ row_data_by_iid = Iids
    /\ cues = [i \in Iids |-> [InitCue(i) EXCEPT !.sw = Switches({1})]]
    /\ \E d \in ExecDocs :
          files = [n \in SeqNames |-> IF n = "warmup" THEN d ELSE NoFile]

\* the execution of a dispatched cue: its own payload or its sequence file
NextExec ==
    \/ \E iid \in Iids : OnTreeSelect(iid)
    \/ \E t \in TimerRecords : BeginSendSelected(t, MaxExecSends)
    \/ RunCallback
    \/ \E iid \in Iids, col \in ToggleCols : ToggleIfSwitchCell(iid, col)
    \/ \E st \in StepLists : MenuAddNewSequence("warmup", st)
    \/ \E g \in Gens : WorkerStart(g)
    \/ \E g \in Gens, o \in Outcomes : WorkerResponse(g, o)
    \/ \E g \in Gens : WorkerWake(g)

SpecExec == InitExec /\ [][NextExec]_vars

\* the switch columns of a row handed to add_row: each one True, False or
\* not given
CodecInputs == UNION {[D -> BOOLEAN] : D \in SUBSET (1..8)}

InitCodec ==
    /\ InitCoordinator
    /\ row_data_by_iid = Iids
    /\ \E sw \in CodecInputs :
          cues = [i \in Iids |-> [InitCue(i) EXCEPT !.Sequence = "", !.sw = sw]]
    /\ files = [n \in SeqNames |-> NoFile]

\* the codec applied to the rows of the table by the send worker
NextCodec ==
    \/ \E iid \in Iids : OnTreeSelect(iid)
    \/ \E t \in TimerRecords : BeginSendSelected(t, MaxExecSends)
    \/ RunCallback
    \/ \E g \in Gens : WorkerStart(g)
    \/ \E g \in Gens : WorkerResponse(g, "200")

SpecCodec == InitCodec /\ [][NextCodec]_vars

\* the rows of the opened cue file, sorted by order as _read_xml returns them:
\* row 2 names the sequence warmup, the delays are 500, 0 and blank in turn
BatchCue(i) ==
    [Cue |-> CASE i = 1 -> "A" [] i = 2 -> "B" [] i = 3 -> "C" [] OTHER -> "D",
     Order |-> IntVal(i),
     Sequence |-> IF i = 2 THEN "warmup" ELSE "",
     Delay |-> CASE i % 3 = 1 -> IntVal(500) [] i % 3 = 2 -> IntVal(0) [] OTHER -> StrVal(""),
     sw |-> Switches({i})]

\* the texts typed into an Order cell
EditTexts == {"1", "2", "3", "", "x"}

InitBatch ==
    /\ InitCoordinator
    /\ row_data_by_iid = BatchIids
    /\ cues = [i \in BatchIids |-> BatchCue(i)]
    /\ files = [n \in SeqNames |-> IF n = "warmup" THEN WarmupCues ELSE NoFile]

\* the Order cell of row iid is edited before the Run command is first given
\* (a run works on the <Cues> document built when it was given)
EditOrderCell(iid, text) ==
    /\ runs = 0
    /\ InlineEditCommit(iid, "Order", text)

\* the Run command on a table whose Order cells were edited
NextBatch ==
    \/ \E iid \in BatchIids, text \in EditTexts : EditOrderCell(iid, text)
    \/ MenuRun
    \/ RunCallback
    \/ \E k \in 1..MaxRuns : RunStart(k)
    \/ \E k \in 1..MaxRuns, o \in Outcomes : RunResponse(k, o)
    \/ \E k \in 1..MaxRuns : RunWake(k)

SpecBatch == InitBatch /\ [][NextBatch]_vars

\* the iids Tk gives to the rows of the file opened later: never those of
\* rows that were in the table before
OpenedIids == (NumRows + 1)..(NumRows + MaxOpenRows)

TableIids == Iids \cup OpenedIids

\* File > Open, once, of a cue file whose rows get the iids opened (none for
\* a file without cues): _menu_open with clear_rows, load_rows and
\* _select_row_by_index(0), which tells the observer the first row
MenuOpen(opened) ==
    /\ winfo_exists
    /\ store.pc = "idle"
    /\ ~is_closing
    /\ row_data_by_iid = Iids
    /\ row_data_by_iid' = opened
    /\ IF opened = {}
       THEN /\ selection' = 0
            /\ UNCHANGED notified
       ELSE /\ selection' = NumRows + 1
            /\ notified' = [iid |-> NumRows + 1, pending |-> pending_send_id]
    /\ last' = [op |-> "open", arg |-> Cardinality(opened), n |-> 0]
    /\ UNCHANGED <<send_seq, pending_send_id, is_closing, winfo_exists, dli_status,
                   busy, cues, timers, queue, workers, run, runs, files, store>>

\* the timers Tk can hold when the table was reloaded
OpenTimerRecords == [id : TimerIds, iid : TableIids, n : 1..MaxBurst]

InitOpen ==
    /\ InitCoordinator
    /\ row_data_by_iid = Iids
    /\ cues = [i \in TableIids |-> [InitCue(i) EXCEPT !.Sequence = ""]]
    /\ files = [n \in SeqNames |-> NoFile]

\* selections and sends while the cue table is edited and reloaded
NextOpen ==
    \/ \E iid \in TableIids : OnTreeSelect(iid)
    \/ \E t \in OpenTimerRecords : BeginSendSelected(t, MaxExecSends)
    \/ RunCallback
    \/ \E opened \in {{}, OpenedIids} : MenuOpen(opened)
    \/ \E iid \in TableIids, col \in ToggleCols : ToggleIfSwitchCell(iid, col)
    \/ \E g \in Gens : WorkerStart(g)
    \/ \E g \in Gens, o \in {"200", "timeout"} : WorkerResponse(g, o)

SpecOpen == InitOpen /\ [][NextOpen]_vars

\* execute_sequence(root) is called by a caller of its own, outside the Run
\* command: a thread enters it with the children of a <Cues> root
ExecuteSequenceCall(root) ==
    /\ runs < MaxRuns
    /\ runs' = runs + 1
    /\ run' = [run EXCEPT ![runs + 1] =
          ExecuteSequenceStart(
              [pc |-> "start", root |-> root, todo |-> <<>>, flight |-> <<>>,
               trace |-> <<>>, ok |-> FALSE, msg |-> "", detail |-> "",
               called |-> <<>>])]
    /\ UNCHANGED <<send_seq, pending_send_id, is_closing, winfo_exists, dli_status,
                   busy, row_data_by_iid, cues, timers, queue, workers, files,
                   selection, last, store, notified>>

\* the device answers the POST execute_sequence is blocked in
ExecuteSequenceReturn(k, outcome) ==
    /\ run[k].pc = "call"
    /\ run' = [run EXCEPT ![k] = ExecuteSequenceResponse(run[k], outcome)]
    /\ UNCHANGED <<send_seq, pending_send_id, is_closing, winfo_exists, dli_status,
                   busy, row_data_by_iid, cues, timers, queue, workers, runs, files,
                   selection, last, store, notified>>

\* time.sleep in execute_sequence returns
ExecuteSequenceWake(k) ==
    /\ run[k].pc = "sleep"
    /\ run' = [run EXCEPT ![k] = RunLoop(run[k], Tail(run[k].todo))]
    /\ UNCHANGED <<send_seq, pending_send_id, is_closing, winfo_exists, dli_status,
                   busy, row_data_by_iid, cues, timers, queue, workers, runs, files,
                   selection, last, store, notified>>

\* the kinds of <Cue> element a hand-built root holds: a switch set with a
\* delay, a switch reset without one, a child that is no switch, a switch
\* whose text is no boolean, no child at all, a switch set with a delay that
\* is no integer
CueKinds == {"set", "reset", "note", "text", "bare", "late"}

\* the <Cue> element of a kind with the order text
KindCue(kind, order) ==
    CASE kind = "set" -> CueElement(order, "500", "Switch1", "true")
      [] kind = "reset" -> CueElement(order, "", "Switch2", "FALSE")
      [] kind = "note" -> CueElement(order, "0", "Note", "true")
      [] kind = "text" -> CueElement(order, "0", "Switch3", "on")
      [] kind = "late" -> CueElement(order, "soon", "Switch4", "true")
      [] OTHER -> [tag |-> "Cue", attr |-> [order |-> order, delay |-> ""],
                   children |-> <<>>]

\* the roots handed to execute_sequence: NumApiCues cues of any kinds, their
\* orders ascending or descending in document order
ApiRoots ==
    {[i \in 1..NumApiCues |-> KindCue(f[i], StrOfInt(IF up THEN i ELSE NumApiCues + 1 - i))] :
        f \in [1..NumApiCues -> CueKinds], up \in BOOLEAN}

\* execute_sequence called on hand-built roots
NextApi ==
    \/ \E root \in ApiRoots : ExecuteSequenceCall(root)
    \/ \E k \in 1..MaxRuns, o \in Outcomes : ExecuteSequenceReturn(k, o)
    \/ \E k \in 1..MaxRuns : ExecuteSequenceWake(k)

SpecApi == Init /\ [][NextApi]_vars

\* a hand-written sequence file: spellings, gaps and texts that are no numbers
HandSequence ==
    [root |-> "Sequence",
     elems |-> <<[tag |-> "Step", children |-> <<>>,
                  attr |-> [switch |-> "3", position |-> "Yes", delay |-> "500"]],
                 [tag |-> "Note", children |-> <<>>, attr |-> [switch |-> "1"]],
                 [tag |-> "Step", children |-> <<>>, text |-> "4",
                  attr |-> [Switch |-> "x", state |-> " on "]],
                 [tag |-> "Step", children |-> <<>>,
                  attr |-> [position |-> "maybe", delay |-> "soon"]],
                 [tag |-> "Step", children |-> <<>>, attr |-> [channel |-> "2"]],
                 [tag |-> "Step", children |-> <<>>,
                  attr |-> [switch |-> "", position |-> "TRUE", delay |-> ""]]>>]

\* what sequences/warmup.xml holds when the sequence editor is opened
StoreDocs == {HandSequence, WarmupCues, NoFile}

\* the step lists typed into the sequence editor
StoreStepLists ==
    StepLists \cup {<<>>, <<[switch |-> 0, position |-> FALSE, delay |-> 3],
                           [switch |-> 4, position |-> TRUE, delay |-> 0],
                           [switch |-> 0, position |-> FALSE, delay |-> 3]>>}

InitStore ==
    /\ InitCoordinator
    /\ row_data_by_iid = Iids
    /\ cues = [i \in Iids |-> [InitCue(i) EXCEPT !.sw = Switches({1})]]
    /\ \E d \in StoreDocs :
          files = [n \in SeqNames |-> IF n = "warmup" THEN d ELSE NoFile]

\* the sequence editor loading and saving while cues are selected and sent
NextStore ==
    \/ \E st \in StoreStepLists : WriteBegin("warmup", st)
    \/ WriteEnd
    \/ Restart
    \/ \E name \in SeqNames : MenuEditSequence(name)
    \/ \E iid \in Iids : OnTreeSelect(iid)
    \/ \E t \in TimerRecords : BeginSendSelected(t, MaxExecSends)
    \/ RunCallback
    \/ \E g \in Gens : WorkerStart(g)
    \/ \E g \in Gens, o \in Outcomes : WorkerResponse(g, o)
    \/ \E g \in Gens : WorkerWake(g)

SpecStore == InitStore /\ [][NextStore]_vars

\* ------------------------------------------------------------------ claims
InCall(g) == workers[g].pc \in {"own_call", "seq_call"}
Dispatched(g) == workers[g].pc # "none"

\* C1: a posted result whose generation differs from the current generation
\* counter is discarded: running its callback changes neither the status
\* display nor the busy flag (so a result of g1 that arrives after the result
\* of g2 > g1 was applied leaves the status of g2 displayed).
C1_StaleDiscarded ==
    [][(/\ queue # <<>>
        /\ Head(queue).fn = "finish_send"
        /\ Head(queue).seq # send_seq
        /\ queue' = Tail(queue))
       => (dli_status' = dli_status /\ busy' = busy)]_vars

\* the result of the current generation was applied, then a result of an
\* older generation arrived and was the last callback to run
C1_Witness ==
    /\ last.op = "finish_send"
    /\ last.arg < send_seq
    /\ dli_status.src = "send"
    /\ dli_status.gen = send_seq
    /\ ~is_closing

\* C2: selections that arrive before the previous debounce timer has fired are
\* coalesced: at most one timer is outstanding and it stands for the last
\* selected row; a dispatch consumes that one timer and starts exactly one
\* worker, for the last selected row.
C2_Coalescing ==
    /\ [](/\ Cardinality(timers) <= 1
          /\ \A t \in timers : t.iid = selection /\ t.id = pending_send_id)
    /\ [][send_seq' # send_seq =>
            /\ send_seq' = send_seq + 1
            /\ timers' = {}
            /\ \A t \in timers : workers'[send_seq'].cue = t.iid /\ t.iid = selection
            /\ \A g \in Gens \ {send_seq'} : workers'[g] = workers[g]]_vars

\* a timer that stood for three selections, of both rows, has fired and one
\* worker was dispatched, for the row selected last
C2_Witness ==
    /\ last.op = "fire"
    /\ last.n >= 3
    /\ send_seq = 1
    /\ workers[1].pc = "start"
    /\ workers[1].cue = selection
    /\ \A g \in Gens \ {1} : ~Dispatched(g)

\* C3 as stated: the device calls of two dispatched generations are never in
\* flight at the same time.
C3_Original == \A g1, g2 \in Gens : (InCall(g1) /\ InCall(g2)) => g1 = g2

\* C3 amended: dispatch is serialized, not the device calls: the workers are
\* started one per debounce fire in generation order, generation g exactly
\* when the counter reaches g, each tagged with its own generation.
C3_DispatchOrder ==
    \A g \in Gens : /\ Dispatched(g) <=> g <= send_seq
                    /\ Dispatched(g) => workers[g].seq = g

\* two generations dispatched in order have their device calls in flight together
C3_Witness == InCall(1) /\ InCall(2) /\ send_seq = 2

\* C4: when every dispatched worker has finished and every posted result has
\* been processed, without shutdown, the status shows the result of the
\* highest dispatched generation.
C4_LastScheduledWins ==
    (/\ send_seq > 0
     /\ ~is_closing
     /\ queue = <<>>
     /\ \A g \in Gens : Dispatched(g) => workers[g].pc = "exit")
    => /\ dli_status.src = "send"
       /\ dli_status.gen = send_seq
       /\ dli_status.ok = workers[send_seq].ok
       /\ dli_status.msg = workers[send_seq].msg
       /\ dli_status.name = cues[workers[send_seq].cue].Cue

\* generation 1 completed after generation 2: its result was processed last,
\* and the status is that of generation 2
C4_Witness ==
    /\ send_seq = 2
    /\ ~is_closing
    /\ queue = <<>>
    /\ \A g \in 1..2 : workers[g].pc = "exit"
    /\ last.op = "finish_send"
    /\ last.arg = 1
    /\ dli_status.gen = 2
    /\ workers[1].ok # workers[2].ok

\* C5: once shutdown is requested no debounce timer is scheduled, the pending
\* one is cancelled, and no send is dispatched: the generation counter, the
\* set of started workers and an unset busy flag stay as they are.
C5_NoDispatchAfterShutdown ==
    [][is_closing' =>
         /\ timers' \subseteq timers
         /\ (~is_closing => timers' = {})
         /\ send_seq' = send_seq
         /\ (busy' => busy)
         /\ \A g \in Gens : ~Dispatched(g) => workers'[g] = workers[g]]_vars

\* a selection event ran after the shutdown request and scheduled nothing
C5_Witness ==
    /\ is_closing
    /\ winfo_exists
    /\ last.op = "select"
    /\ timers = {}
    /\ pending_send_id = NoTimer
    /\ send_seq >= 1

\* C6 as stated: after the shutdown request no posted result of a worker
\* changes the status display or the busy flag when its callback runs.
C6_Original ==
    [][(is_closing /\ queue # <<>> /\ queue' = Tail(queue))
       => (dli_status' = dli_status /\ busy' = busy)]_vars

\* C7 as stated: the switch vector and the sequence reference a worker uses
\* are those the cue had when the debounce fired.
C7_Original ==
    \A g \in Gens :
        (Dispatched(g) /\ workers[g].pc # "start")
        => /\ workers[g].payload = build_pairs_from_cue(workers[g].snap)
           /\ workers[g].sequence = workers[g].snap.Sequence

\* C8 as stated: a dispatch whose cue names a sequence that resolves sends no
\* device call that carries the cue's own 8 switch pairs.
C8_Original ==
    \A g \in Gens :
        (Dispatched(g) /\ workers[g].sequence # "" /\ workers[g].doc # NoFile)
        => \A i \in 1..Len(workers[g].trace) :
              ~(workers[g].trace[i].ev = "call" /\ workers[g].trace[i].kind = "own")

IsPrefix(a, b) == Len(a) <= Len(b) /\ SubSeq(b, 1, Len(a)) = a

RECURSIVE ExpectedTrace(_)
\* one POST of the single pair [switch, position] per step, answered 200,
\* and a pause after a step whose delay is > 0
ExpectedTrace(steps) ==
    IF steps = <<>> THEN <<>>
    ELSE <<Call("step", <<<<Head(steps).switch, Head(steps).position>>>>),
           Resp("step", "200")>>
         \o (IF Head(steps).delay > 0 THEN <<Sleep(Head(steps).delay)>> ELSE <<>>)
         \o ExpectedTrace(Tail(steps))

Failed(tr) == \E i \in 1..Len(tr) : tr[i].ev = "resp" /\ tr[i].outcome # "200"

\* C9 as stated: a cue that references a sequence saved by the Sequence Store
\* is executed as one device call per step, carrying [switch, position], in
\* step order, with a pause after each step whose delay is > 0 (as long as no
\* device call fails).
C9_Original ==
    \A g \in Gens : \A st \in StepLists :
        (/\ Dispatched(g)
         /\ workers[g].pc = "exit"
         /\ workers[g].sequence # ""
         /\ workers[g].doc = write_sequence_xml(st)
         /\ ~Failed(workers[g].trace))
        => IsPrefix(ExpectedTrace(st), workers[g].trace)

\* C10: when the device call of a step of the referenced sequence fails, it is
\* the last thing the worker does with the device (no later step, no retry,
\* no own payload) and the result of the dispatch is a failure.
C10_StepFailureAborts ==
    \A g \in Gens :
        Dispatched(g) =>
            \A i \in 1..Len(workers[g].trace) :
                (/\ workers[g].trace[i].ev = "resp"
                 /\ workers[g].trace[i].kind = "step"
                 /\ workers[g].trace[i].outcome # "200")
                => /\ i = Len(workers[g].trace)
                   /\ workers[g].pc = "exit"
                   /\ ~workers[g].ok

\* the second of three steps failed with an HTTP error status: the third step
\* was still to run and the dispatch ended as a failure
C10_Witness ==
    \E g \in Gens :
        /\ Dispatched(g)
        /\ workers[g].pc = "exit"
        /\ ~workers[g].ok
        /\ Len(workers[g].trace) = 4
        /\ workers[g].trace[4] = Resp("step", "500")
        /\ Len(workers[g].todo) = 2

\* the device calls of a history, oldest first
Calls(tr) == SelectSeq(tr, LAMBDA e : e.ev = "call")

\* C11: a dispatch whose cue names a sequence for which no file is stored
\* fails with the not-found error, which is the result shown when it is
\* applied, and issues no device call at all.
C11_NotFoundNoCall ==
    \A g \in Gens :
        (/\ Dispatched(g)
         /\ workers[g].pc # "start"
         /\ workers[g].sequence # ""
         /\ workers[g].doc = NoFile)
        => /\ workers[g].pc = "exit"
           /\ ~workers[g].ok
           /\ workers[g].msg = "FileNotFoundError"
           /\ workers[g].trace = <<>>
           /\ (dli_status.src = "send" /\ dli_status.gen = g)
              => (~dli_status.ok /\ dli_status.msg = "FileNotFoundError")

\* the cue that names warmup was dispatched while no warmup file was stored,
\* and its failure is the status displayed
C11_Witness ==
    \E g \in Gens :
        /\ workers[g].pc = "exit"
        /\ workers[g].sequence = "warmup"
        /\ workers[g].doc = NoFile
        /\ workers[g].trace = <<>>
        /\ dli_status.src = "send"
        /\ dli_status.gen = g
        /\ ~dli_status.ok

\* C12: a dispatch whose cue has an empty sequence reference issues one
\* device call, whose body is the group of the 8 codec pairs of the cue as
\* the worker read it, and after the answer to it, whatever it is, nothing
\* more.
C12_OneCallOwnPayload ==
    \A g \in Gens :
        (Dispatched(g) /\ workers[g].pc # "start" /\ workers[g].read.Sequence = "")
        => /\ Len(Calls(workers[g].trace)) = 1
           /\ workers[g].trace[1].ev = "call"
           /\ Len(workers[g].trace[1].pairs) = 8
           /\ \A i \in 1..8 :
                 workers[g].trace[1].pairs[i] = <<i - 1, SwitchState(workers[g].read, i)>>
           /\ workers[g].pc \in {"own_call", "exit"}
           /\ workers[g].pc = "own_call" =>
                 /\ Len(workers[g].trace) = 1
                 /\ workers[g].flight = workers[g].trace[1].pairs
           /\ workers[g].pc = "exit" =>
                 /\ Len(workers[g].trace) = 2
                 /\ workers[g].trace[2].ev = "resp"
                 /\ workers[g].flight = <<>>

\* the one call of a cue with switch 1 on failed in transport: the dispatch
\* ended as a failure after that single call
C12_Witness ==
    \E g \in Gens :
        /\ workers[g].pc = "exit"
        /\ workers[g].sequence = ""
        /\ ~workers[g].ok
        /\ Len(workers[g].trace) = 2
        /\ workers[g].trace[1].pairs[1] = <<0, TRUE>>
        /\ workers[g].trace[2] = Resp("own", "timeout")

\* C13: the codec turns a cue into exactly 8 pairs, the i-th being
\* (i - 1, state of switch i), a switch the cue does not hold counting as
\* off; it does not fail (the worker goes on to its POST) and leaves the cue
\* as it was.
C13_Codec ==
    [][\A g \in Gens :
         (workers[g].pc = "start" /\ workers'[g].pc # "start")
         => LET cue == cues[workers[g].cue]
                p == workers'[g].payload
            IN /\ Len(p) = 8
               /\ \A i \in 1..8 :
                     p[i] = <<i - 1, IF i \in DOMAIN cue.sw THEN cue.sw[i] ELSE FALSE>>
               /\ workers'[g].pc = "own_call"
               /\ workers'[g].flight = p
               /\ cues' = cues]_vars

\* a cue without switch 1, with switch 2 off and switch 8 on was encoded
C13_Witness ==
    \E g \in Gens :
        /\ workers[g].pc = "own_call"
        /\ 1 \notin DOMAIN cues[workers[g].cue].sw
        /\ 2 \in DOMAIN cues[workers[g].cue].sw
        /\ workers[g].payload[1] = <<0, FALSE>>
        /\ workers[g].payload[2] = <<1, FALSE>>
        /\ workers[g].payload[8] = <<7, TRUE>>

Running(k) == run[k].pc \in {"call", "sleep", "exit"}

\* the cues of the document handed to the batch worker k, in table order
RootOf(k) == FindCues(run[k].root)

\* the place in the table of the cue element el (the rows differ in name)
RowOf(root, el) == CHOOSE i \in 1..Len(root) : Get(root[i], "name") = Get(el, "name")

\* C15: the device calls of a batch run are those of the cues taken in
\* non-decreasing integer order, cues of equal order in table order: each
\* call carries the switches of its cue, a cue called earlier runs before one
\* called later (smaller order, or equal order and earlier in the table), a
\* cue not yet called runs after every cue called, and a run that succeeds
\* has called every cue.
C15_BatchOrder ==
    \A k \in 1..MaxRuns :
        Running(k) =>
            LET root == RootOf(k)
                calls == Calls(run[k].trace)
                n == Len(run[k].called)
                called == {RowOf(root, run[k].called[a]) : a \in 1..n}
                RunsBefore(i, j) ==
                    \/ IntOfStr(Get(root[i], "order")) < IntOfStr(Get(root[j], "order"))
                    \/ /\ IntOfStr(Get(root[i], "order")) = IntOfStr(Get(root[j], "order"))
                       /\ i < j
            IN /\ Len(calls) = n
               /\ \A a \in 1..n :
                     /\ root[RowOf(root, run[k].called[a])] = run[k].called[a]
                     /\ calls[a].pairs = CueSteps(run[k].called[a]).steps
               /\ \A a, b \in 1..n :
                     a < b => RunsBefore(RowOf(root, run[k].called[a]),
                                         RowOf(root, run[k].called[b]))
               /\ \A i \in called, j \in (1..Len(root)) \ called : RunsBefore(i, j)
               /\ (run[k].pc = "exit" /\ run[k].ok) => n = Len(root)

\* a table with the orders 3, 1, 1 was run to its end: row 2, row 3, row 1
C15_Witness ==
    \E k \in 1..MaxRuns :
        /\ run[k].pc = "exit"
        /\ run[k].ok
        /\ Len(RootOf(k)) = 3
        /\ Get(RootOf(k)[1], "order") = "3"
        /\ Get(RootOf(k)[2], "order") = "1"
        /\ Get(RootOf(k)[3], "order") = "1"
        /\ Calls(run[k].trace) =
              <<Call("step", CueSteps(RootOf(k)[2]).steps),
                Call("step", CueSteps(RootOf(k)[3]).steps),
                Call("step", CueSteps(RootOf(k)[1]).steps)>>

\* C16: when a device call of a batch run fails, it is the last thing the
\* run does with the device, and the run ends as a failure.
C16_BatchAbort ==
    \A k \in 1..MaxRuns :
        Running(k) =>
            \A i \in 1..Len(run[k].trace) :
                (run[k].trace[i].ev = "resp" /\ run[k].trace[i].outcome # "200")
                => /\ i = Len(run[k].trace)
                   /\ run[k].pc = "exit"
                   /\ ~run[k].ok
                   /\ run[k].flight = <<>>

\* the call of the second of three cues was answered 500: the third cue was
\* still to run, the run failed and its failure is the status displayed
C16_Witness ==
    \E k \in 1..MaxRuns :
        /\ run[k].pc = "exit"
        /\ ~run[k].ok
        /\ Len(RootOf(k)) = 3
        /\ Len(Calls(run[k].trace)) = 2
        /\ run[k].trace[Len(run[k].trace)] = Resp("step", "500")
        /\ Len(run[k].todo) = 2
        /\ dli_status.src = "run"
        /\ ~dli_status.ok

\* C17 as stated: the error of a batch run that failed at the device call of
\* a cue names that cue (by its name or its order).
C17_Original ==
    \A k \in 1..MaxRuns :
        (/\ run[k].pc = "exit"
         /\ ~run[k].ok
         /\ run[k].trace # <<>>
         /\ run[k].trace[Len(run[k].trace)].ev = "resp"
         /\ run[k].trace[Len(run[k].trace)].outcome # "200")
        => run[k].detail \in {Get(Head(run[k].todo), "name"),
                               Get(Head(run[k].todo), "order")}

\* C18: a batch run of a table in which some cue has an order that is not an
\* integer ends with the validation error of the order and issues no device
\* call, wherever that cue stands in the table.
C18_OrderValidated ==
    \A k \in 1..MaxRuns :
        (/\ Running(k)
         /\ \E i \in 1..Len(RootOf(k)) : ~IsIntStr(Get(RootOf(k)[i], "order")))
        => /\ run[k].pc = "exit"
           /\ ~run[k].ok
           /\ run[k].msg \in {"ValueError: Invalid Cue order",
                               "ValueError: Cue missing required 'order' attribute"}
           /\ run[k].trace = <<>>

\* the last row of the table has a blank order, the rows before it integer
\* orders: the run failed without a device call and the status shows it
C18_Witness ==
    \E k \in 1..MaxRuns :
        /\ run[k].pc = "exit"
        /\ ~run[k].ok
        /\ run[k].trace = <<>>
        /\ Len(RootOf(k)) = 3
        /\ Get(RootOf(k)[1], "order") = "2"
        /\ Get(RootOf(k)[2], "order") = "1"
        /\ Get(RootOf(k)[3], "order") = ""
        /\ dli_status.src = "run"
        /\ dli_status.msg = "ValueError: Invalid Cue order"

\* C19 as stated: a batch run sends no device call that carries the own 8
\* switches of a cue that names a sequence.
C19_Original ==
    \A k \in 1..MaxRuns :
        Running(k) =>
            \A i \in 1..Len(RootOf(k)) :
                Get(RootOf(k)[i], "sequence") # ""
                => \A a \in 1..Len(run[k].trace) :
                      ~(/\ run[k].trace[a].ev = "call"
                        /\ run[k].trace[a].pairs = CueSteps(RootOf(k)[i]).steps)

\* the pause the delay attribute of a cue asks for: 0 when it is absent,
\* blank or 0
PauseOf(el) ==
    IF Get(el, "delay") \in {NoAttr, "", "0"} THEN 0 ELSE IntOfStr(Get(el, "delay"))

\* C20: in a batch run the answer 200 to the call of a cue whose delay is > 0
\* is followed at once by a pause of that delay, and only then by the next
\* call; after a cue whose delay is 0 or blank the next call follows without
\* a pause; while the worker pauses no call is in flight.
C20_BatchDelay ==
    \A k \in 1..MaxRuns :
        Running(k) =>
            LET tr == run[k].trace
                CallsUpTo(i) == Len(SelectSeq(SubSeq(tr, 1, i), LAMBDA e : e.ev = "call"))
            IN /\ \A i \in 1..Len(tr) :
                     (tr[i].ev = "resp" /\ tr[i].outcome = "200")
                     => LET d == PauseOf(run[k].called[CallsUpTo(i)])
                        IN IF d > 0
                           THEN /\ i < Len(tr)
                                /\ tr[i + 1] = Sleep(d)
                           ELSE i < Len(tr) => tr[i + 1].ev = "call"
               /\ \A i \in 1..Len(tr) :
                     tr[i].ev = "sleep"
                     => /\ i > 2
                        /\ tr[i - 1] = Resp("step", "200")
                        /\ (i = Len(tr) /\ run[k].pc # "exit")
                              => (run[k].pc = "sleep" /\ run[k].flight = <<>>)
               /\ run[k].pc = "sleep" => tr[Len(tr)].ev = "sleep"

\* the cue with delay 500 ran first and the worker paused 500 ms before the
\* call of the next cue, which has delay 0 and was followed without a pause
C20_Witness ==
    \E k \in 1..MaxRuns :
        /\ Running(k)
        /\ Len(run[k].trace) >= 6
        /\ run[k].trace[2] = Resp("step", "200")
        /\ run[k].trace[3] = Sleep(500)
        /\ run[k].trace[4].ev = "call"
        /\ run[k].trace[5] = Resp("step", "200")
        /\ run[k].trace[6].ev = "call"

\* C21: a step list of integer switches, boolean positions and integer delays
\* that was saved and is then loaded comes back as the same steps in the same
\* order: whenever the document the editor last read is the saved form of a
\* step list, the load gave no error and exactly that list.
C21_RoundTrip ==
    \A st \in StoreStepLists :
        store.doc = write_sequence_xml(st) => (store.err = "" /\ store.loaded = st)

\* the three-step list with a repeated step was saved, and then loaded
C21_Witness ==
    /\ store.pc = "idle"
    /\ Len(store.loaded) = 3
    /\ store.doc = write_sequence_xml(store.loaded)
    /\ store.doc = files["warmup"]
    /\ store.loaded[2] = [switch |-> 4, position |-> TRUE, delay |-> 0]

\* C22 as stated: a load of a document whose root is not that of a sequence
\* document ends in an error and gives no steps.
C22_Original ==
    (store.doc # NoFile /\ store.doc.root # "Sequence")
        => (store.err # "" /\ store.loaded = <<>>)

\* the <Step> elements of a document, in document order
StepElements(doc) == SelectSeq(doc.elems, LAMBDA e : e.tag = "Step")

\* the text of a field of a step element under the first of its spellings
\* that the element carries, NoAttr when it carries none
FieldText(el, k1, k2, k3) ==
    IF k1 \in DOMAIN el.attr THEN el.attr[k1]
    ELSE IF k2 \in DOMAIN el.attr THEN el.attr[k2]
    ELSE IF k3 \in DOMAIN el.attr THEN el.attr[k3]
    ELSE NoAttr

\* the delay of a step element: its attribute, else its nested text
DelayText(el) ==
    IF FieldText(el, "delay", "Delay", "delay") # NoAttr
    THEN FieldText(el, "delay", "Delay", "delay") ELSE Text(el)

\* C23: a load never fails on the field values of a step: every step element
\* of the document read gives exactly one step, in document order; its
\* position is true exactly for the accepted spellings (case-insensitive) and
\* false when the position is missing; its delay and its switch are the
\* integer written, and 0 when missing or not an integer.
C23_TolerantLoad ==
    (store.doc # NoFile /\ store.doc # Truncated) =>
        LET els == StepElements(store.doc)
        IN /\ store.err = ""
           /\ Len(store.loaded) = Len(els)
           /\ \A i \in 1..Len(els) :
                 LET pos == FieldText(els[i], "position", "Position", "state")
                     sw == FieldText(els[i], "switch", "Switch", "channel")
                     dl == DelayText(els[i])
                 IN /\ store.loaded[i].position =
                          (pos # NoAttr /\ PositionLower(pos) \in TruePositions)
                    /\ store.loaded[i].switch =
                          (IF sw # NoAttr /\ IsIntStr(sw) THEN IntOfStr(sw) ELSE 0)
                    /\ store.loaded[i].delay =
                          (IF dl # NoAttr /\ IsIntStr(dl) THEN IntOfStr(dl) ELSE 0)

\* the hand-written file was loaded: five steps from six elements, with a
\* position of another spelling, one that is no boolean, a delay that is no
\* number, a delay given as text and a switch that is missing
C23_Witness ==
    /\ store.doc = HandSequence
    /\ Len(store.loaded) = 5
    /\ store.loaded[1] = [switch |-> 3, position |-> TRUE, delay |-> 500]
    /\ store.loaded[2] = [switch |-> 0, position |-> TRUE, delay |-> 4]
    /\ store.loaded[3] = [switch |-> 0, position |-> FALSE, delay |-> 0]
    /\ store.loaded[4] = [switch |-> 2, position |-> FALSE, delay |-> 0]

\* C24 as stated: no load, by the editor after the application was started
\* again or by a send worker while the editor saves, reads a document whose
\* write was begun and not finished.
C24_Original ==
    /\ store.doc # Truncated
    /\ \A g \in Gens : Dispatched(g) => workers[g].doc # Truncated

\* a step of _on_tree_select: the only handler that leaves last.op = "select"
\* and touches the selection, the timers or the observer
SelectStep ==
    /\ last'.op = "select"
    /\ <<selection, timers, pending_send_id, notified>>'
          # <<selection, timers, pending_send_id, notified>>

\* C25: every selection event calls the cue-change callback with the selected
\* row while the debounced send of that selection is not yet scheduled (the
\* callback sees the _pending_send_id of before), whether or not the timer it
\* then schedules is cancelled later; so every outstanding timer and every
\* dispatch is for a row the callback was called with before.
C25_NotifiedFirst ==
    /\ [][SelectStep =>
            /\ notified'.iid = selection'
            /\ notified'.pending = pending_send_id
            /\ \A t \in timers' \ timers : t.id = pending_send_id' /\ t.iid = notified'.iid]_vars
    /\ [](\A t \in timers : t.iid = notified.iid)
    /\ [][send_seq' # send_seq => workers'[send_seq'].cue = notified.iid]_vars

\* row 1 was selected and then row 2 before the timer fired: the callback was
\* called with row 2 while the timer of row 1 was pending, that timer was
\* cancelled, and nothing has been dispatched
C25_Witness ==
    /\ notified.iid = 2
    /\ notified.pending # NoTimer
    /\ \E t \in timers : t.iid = 2 /\ t.n >= 2
    /\ send_seq = 0
    /\ \A g \in Gens : ~Dispatched(g)

\* what went wrong in the send worker of generation g: its sequence file is
\* missing or is no document it can execute, or a device call of it failed
\* in transport or was answered with an error status
WorkerFailure(g) ==
    \/ workers[g].sequence # "" /\ workers[g].doc = NoFile
    \/ workers[g].sequence # "" /\ workers[g].doc.root # "Cues"
    \/ Failed(workers[g].trace)

\* C26 as stated: every failure inside the worker of a selected cue (missing
\* sequence, parse or validation error, transport error, device error) becomes
\* an error result: the worker ends with ok = false and the result it posts
\* to the interactive thread is an error.
C26_Original ==
    \A g \in Gens :
        (Dispatched(g) /\ workers[g].pc = "exit" /\ WorkerFailure(g))
        => /\ ~workers[g].ok
           /\ \A i \in 1..Len(queue) :
                 (queue[i].fn = "finish_send" /\ queue[i].seq = g) => ~queue[i].ok

\* a step taken by a worker thread: a send worker or a batch worker that
\* exists moves on
WorkerStep ==
    \/ \E g \in Gens : Dispatched(g) /\ workers'[g] # workers[g]
    \/ \E k \in 1..MaxRuns : run[k].pc # "none" /\ run'[k] # run[k]

\* C27 as stated: no step of a worker thread, of a send or of a batch run,
\* writes the generation counter, the busy flag, the shutdown flag or the
\* status display.
C27_Original ==
    [][WorkerStep => UNCHANGED <<send_seq, busy, is_closing, dli_status>>]_vars

\* C28 as stated: whenever the status display changes or the busy flag is
\* cleared, the step is the callback of a posted send result whose generation
\* equals the generation counter, also while a batch run executes.
C28_Original ==
    [][(dli_status' # dli_status \/ (busy /\ ~busy'))
       => /\ queue # <<>>
          /\ queue' = Tail(queue)
          /\ Head(queue).fn = "finish_send"
          /\ Head(queue).seq = send_seq]_vars

\* a child of a cue element that is a boolean switch: <SwitchN> with a digit
\* N and the text true or false in any case
BooleanSwitch(c) == SwitchNumber(c.tag) > 0 /\ StripLower(c.text) \in {"true", "false"}

\* a cue element none of whose children is a boolean switch
NoSwitches(el) == \A i \in 1..Len(el.children) : ~BooleanSwitch(el.children[i])

\* the position in the execution order of the first cue without boolean
\* switch children, 0 if every cue has one
FirstWithout(sorted) ==
    IF \A i \in 1..Len(sorted) : ~NoSwitches(sorted[i]) THEN 0
    ELSE CHOOSE i \in 1..Len(sorted) :
            NoSwitches(sorted[i]) /\ \A j \in 1..(i - 1) : ~NoSwitches(sorted[j])

\* C29: in a batch run a cue element without boolean switch children is never
\* sent to the device, and neither is any cue after it in execution order:
\* the device calls issued are those of the cues before it, they stand (one
\* call event each, nothing is sent to undo them), and when the run reaches
\* the cue (no call before it failed, no delay before it was invalid) it ends
\* with a validation error.
C29_NoSwitchesAborts ==
    \A k \in 1..MaxRuns :
        Running(k) =>
            LET sorted == SortByOrder(FindCues(run[k].root))
                j == FirstWithout(sorted)
            IN j > 0 =>
                /\ Len(run[k].called) < j
                /\ run[k].called = SubSeq(sorted, 1, Len(run[k].called))
                /\ Len(Calls(run[k].trace)) = Len(run[k].called)
                /\ (/\ run[k].pc = "exit"
                    /\ Len(run[k].called) = j - 1
                    /\ ~Failed(run[k].trace)
                    /\ \A i \in 1..Len(run[k].called) : CueDelay(run[k].called[i]).err = "")
                   => /\ ~run[k].ok
                      /\ run[k].msg \in {"ValueError: Cue produced no Switch settings",
                                          "ValueError: Invalid value for <SwitchN>"}

\* the first cue was sent and answered with 200, the run slept its delay, the
\* second cue has a child that is no switch: the run ended with the error and
\* the third cue, which has a switch, was not sent
C29_Witness ==
    \E k \in 1..MaxRuns :
        /\ Running(k)
        /\ run[k].pc = "exit"
        /\ ~run[k].ok
        /\ run[k].msg = "ValueError: Cue produced no Switch settings"
        /\ Len(run[k].called) = 1
        /\ Len(run[k].trace) = 3
        /\ run[k].trace[2] = Resp("step", "200")
        /\ Len(run[k].todo) = 2
        /\ NoSwitches(run[k].todo[1])
        /\ ~NoSwitches(run[k].todo[2])

\* C30: in every reachable state at most one debounce timer is outstanding,
\* and an outstanding timer is the one whose handle _pending_send_id holds.
C30_OneTimer ==
    /\ Cardinality(timers) <= 1
    /\ timers # {} => pending_send_id \in {t.id : t \in timers}

\* a row was dispatched and its worker is in its device call; since then the
\* rows were selected twice more, and one timer stands for both selections
C30_Witness ==
    /\ Cardinality(timers) = 1
    /\ \E t \in timers : t.n = 2 /\ t.id = pending_send_id
    /\ send_seq = 1
    /\ InCall(1)
    /\ ~is_closing

\* C31: the generation counter never decreases; it changes only in a debounce
\* fire that dispatches a worker, and then by exactly one; a worker is
\* dispatched only in such a step and is tagged with the new value of the
\* counter, which is greater than the tag of every worker dispatched before.
C31_GenerationCounter ==
    [][/\ send_seq' >= send_seq
       /\ send_seq' # send_seq =>
            /\ send_seq' = send_seq + 1
            /\ last'.op = "fire"
            /\ ~Dispatched(send_seq')
            /\ workers'[send_seq'].pc = "start"
       /\ \A g \in Gens :
            (~Dispatched(g) /\ workers'[g] # workers[g]) =>
                /\ send_seq' = send_seq + 1
                /\ workers'[g].seq = send_seq'
                /\ \A h \in Gens : Dispatched(h) => workers[h].seq < workers'[g].seq]_vars

\* two debounce fires have dispatched: the counter is 2, the second worker
\* has just been started with tag 2 while the first, tagged 1, has finished
C31_Witness ==
    /\ send_seq = 2
    /\ last.op = "fire"
    /\ workers[2].pc = "start"
    /\ workers[2].seq = 2
    /\ workers[1].pc = "exit"
    /\ workers[1].seq = 1

\* the result of generation g is what the status display shows, with the name
\* of its cue, and the busy flag is cleared
Applied(g) ==
    /\ dli_status.src = "send"
    /\ dli_status.gen = g
    /\ dli_status.ok = workers[g].ok
    /\ dli_status.msg = workers[g].msg
    /\ dli_status.name = cues[workers[g].cue].Cue
    /\ ~busy

\* C32: under fair scheduling of the workers and of the main loop, a send of
\* generation g that was dispatched leads to the state in which its result is
\* applied (status of g with the cue name, busy cleared), unless a later
\* generation is dispatched or shutdown is requested.
C32_ResultApplied ==
    \A g \in Gens :
        (Dispatched(g) /\ send_seq = g /\ ~is_closing)
            ~> (Applied(g) \/ send_seq > g \/ is_closing)

\* the only dispatched send timed out and its error was applied: the status
\* shows it and the busy flag is cleared
C32_Witness ==
    /\ send_seq = 1
    /\ ~is_closing
    /\ workers[1].pc = "exit"
    /\ ~workers[1].ok
    /\ Applied(1)
    /\ last.op = "finish_send"

\* the send of generation g was dispatched and its result has not been
\* handled by _finish_send: its worker runs, or its result waits in the queue
Outstanding(g) ==
    /\ Dispatched(g)
    /\ \/ workers[g].pc # "exit"
       \/ \E i \in 1..Len(queue) : queue[i].fn = "finish_send" /\ queue[i].seq = g

\* C33 as stated: while shutdown has not been requested the busy flag is set
\* in every state in which the send of the current generation is dispatched
\* and its result is not yet applied, also when a batch run starts or
\* finishes meanwhile.
C33_Original ==
    (~is_closing /\ send_seq >= 1 /\ Outstanding(send_seq)) => busy

\* a debounce timer fires whose row is not in the cue table
DeadFire ==
    /\ last'.op = "fire"
    /\ \E t \in timers \ timers' : t.iid = last'.arg /\ t.iid \notin row_data_by_iid

\* C34: the cue of a selection is looked up when its debounce timer fires:
\* a dispatched worker gets the cue its row holds at the fire, edits since
\* the selection included; a fire whose row is no longer in the table starts
\* no worker, posts nothing and leaves the generation counter, the busy flag
\* and the status display as they are.
C34_DeadFireNoOp ==
    /\ [][DeadFire => UNCHANGED <<send_seq, busy, dli_status, workers, queue>>]_vars
    /\ [][send_seq' # send_seq =>
            /\ workers'[send_seq'].cue \in row_data_by_iid
            /\ workers'[send_seq'].snap = cues[workers'[send_seq'].cue]]_vars

\* a send of generation 1 is in its device call; a row was selected again,
\* a file without cues was opened, and the timer fired on the missing row:
\* generation 1 is still current and busy
C34_Witness ==
    /\ last.op = "fire"
    /\ last.arg \notin row_data_by_iid
    /\ row_data_by_iid = {}
    /\ send_seq = 1
    /\ InCall(1)
    /\ busy
    /\ timers = {}

\* a cue element that passes validation: its delay is absent, blank or an
\* integer and each of its <SwitchN> children holds true or false
ValidCue(el) ==
    /\ Get(el, "delay") \in {NoAttr, ""} \/ IsIntStr(Get(el, "delay"))
    /\ \A i \in 1..Len(el.children) :
          SwitchNumber(el.children[i].tag) > 0 => BooleanSwitch(el.children[i])

\* C35 as stated: in a batch run the device call of a cue is issued only
\* when the cue is valid: no cue with a delay that is not an integer or with
\* a switch value that is not true/false has had its call sent.
C35_Original ==
    \A k \in 1..MaxRuns :
        Running(k) => \A i \in 1..Len(run[k].called) : ValidCue(run[k].called[i])
====
